---- MODULE Spec2Model ----
(***************************************************************************)
(* Model of modules/external_io_operations.py: ExternalIoGateway.send and  *)
(* the three workers it drives (IpfsWorker, PinataWorker,                  *)
(* RobonomicsWorker), with the background thread PinataWorker.post starts. *)
(*                                                                         *)
(* Strings that the code indexes or splats (file names, keyword, qrpic)    *)
(* are sequences of one-character strings, so that truthiness is           *)
(* non-emptiness and  Thread(args=filename)  passes Len(filename)          *)
(* positional arguments.                                                   *)
(***************************************************************************)
EXTENDS Integers, Sequences, FiniteSets, TLC

\* ----------------------------------------------------------------- bounds
MaxCalls == 2                      \* send calls made on the one gateway

\* ------------------------------------------------------------ input sets
None == "None"                     \* Python's None
Unbound == "Unbound"               \* a local name that was never assigned
Pending == "Pending"               \* send has not returned yet
Filenames == {<<"a">>, <<"b", "c">>}
Hashes == {"Qm1", "Qm2"}

\* The content hash client.add reports in res["Hash"] for a file: the store
\* is content addressed, and the two videos differ.
HashOf(fn) == IF fn = <<"a">> THEN "Qm1" ELSE "Qm2"
Keywords == {<<>>, <<"k">>}
QrPics == {<<>>, <<"q">>}
Paths == Filenames \cup (QrPics \ {<<>>})

\* The keys of the configuration that send and PinataWorker read: the
\* enable flags, and whether each pinata credential is present (truthy).
Configs ==
    [intro : BOOLEAN, external_io : BOOLEAN, pinata : BOOLEAN,
     datalog : BOOLEAN, delete_after_record : BOOLEAN,
     pinata_api : BOOLEAN, pinata_secret_api : BOOLEAN]

\* Exception classes that occur; all of them derive from Exception.
NoExc == "NoExc"
Exception ==
    {"UnboundLocalError", "FileNotFoundError", "StorageError", "ShortUrlError",
     "RuntimeError", "ValueError", "OSError", "TypeError", "PinningError"}

VARIABLES
    config,                     \* self.config
    ipfs_hash,                  \* self.ipfs_hash
    files,                      \* paths that exist on disk
    threads,                    \* threads started by PinataWorker.post
    pinned,                     \* files pinata.pin_file_to_ipfs has submitted
    pc,                         \* position of the caller inside send
    filename, keyword, qrpic,   \* send's parameters (filename is reassigned)
    non_concatenated_filename,  \* send's local
    calls,                      \* number of send calls started
    ret,                        \* what the last send returned
    raised,                     \* the exception that left the last send
    obs                         \* what the current call has done so far

vars ==
    <<config, ipfs_hash, files, threads, pinned, pc, filename, keyword, qrpic,
      non_concatenated_filename, calls, ret, raised, obs>>

\* The record of one call, cleared when send is entered.
NoObs(h) ==
    [entryHash |-> h,       \* self.ipfs_hash when send was entered
     concats |-> 0,         \* concatenate invocations
     order |-> <<>>,        \* the stages entered, in the order of entry
     adds |-> 0,            \* client.add invocations
     written |-> None,      \* hash IpfsWorker.post stored in this call
     writes |-> 0,          \* assignments to self.ipfs_hash
     urls |-> <<>>,         \* (keyword, hash) pairs given to update_short_url
     pinPosts |-> 0,        \* PinataWorker.post invocations
     cleanTried |-> FALSE,  \* the try block of lines 95-96 was entered
     removed |-> {},        \* paths os.remove deleted
     posts |-> 0,           \* RobonomicsWorker.post invocations
     postExc |-> NoExc,     \* what RobonomicsWorker.post raised
     cmds |-> <<>>,         \* hashes echoed into the robonomics command
     ledger |-> "none",     \* what became of the robonomics command
     excIo |-> NoExc, excClean |-> NoExc,
     excDatalog |-> NoExc]  \* what the try blocks of lines 81, 95, 101 raised

\* ------------------------------------------------------- ExternalIoGateway
Init ==
    /\ config \in Configs
    /\ ipfs_hash = None
    /\ files = {}
    /\ threads = <<>>
    /\ pinned = {}
    /\ pc = "idle"
    /\ filename = <<>> /\ keyword = <<>> /\ qrpic = <<>>
    /\ non_concatenated_filename = Unbound
    /\ calls = 0
    /\ ret = None
    /\ raised = NoExc
    /\ obs = NoObs(None)

\* Mutant: the handler of line 89 catches the storage failure only.
except_io_storage(e) == e = "StorageError"

\* Mutant: the handler of line 97 catches what os.remove raises only.
except_clean_oserror(e) == e \in {"FileNotFoundError", "OSError"}

\* The handlers of send (lines 89, 97, 104): each is  except Exception.
\* The handler of line 77 guards two assignments, which raise nothing.
except_io(e) == e \in Exception
except_clean(e) == e \in Exception
except_datalog(e) == e \in Exception

\* A thread that has not run to its end.
Alive(t) == t.st = "started"

\* An exception no handler caught leaves send: no value is returned.
Propagate(e) ==
    /\ raised' = e
    /\ ret' = None
    /\ pc' = "returned"

\* The caller has taken the result of send: the frame of the call is gone,
\* and so are the threads that have ended.
Leave ==
    /\ pc = "returned"
    /\ pc' = "idle"
    /\ filename' = <<>> /\ keyword' = <<>> /\ qrpic' = <<>>
    /\ non_concatenated_filename' = Unbound
    /\ ret' = None
    /\ raised' = NoExc
    /\ obs' = NoObs(None)
    /\ threads' = SelectSeq(threads, Alive)
    /\ UNCHANGED <<config, ipfs_hash, files, pinned, calls>>

\* The environment records a video or draws a QR code between two calls.
Record(p) ==
    /\ pc = "idle"
    /\ calls < MaxCalls
    /\ p \notin files
    /\ files' = files \cup {p}
    /\ UNCHANGED <<config, ipfs_hash, threads, pinned, pc, filename, keyword,
                   qrpic, non_concatenated_filename, calls, ret, raised, obs>>

\* A caller enters send(filename, keyword, qrpic).
Send(fn, kw, qr) ==
    /\ pc = "idle"
    /\ calls < MaxCalls
    /\ calls' = calls + 1
    /\ filename' = fn /\ keyword' = kw /\ qrpic' = qr
    /\ non_concatenated_filename' = Unbound
    /\ ret' = Pending
    /\ raised' = NoExc
    /\ obs' = NoObs(ipfs_hash)
    /\ pc' = "intro"
    /\ UNCHANGED <<config, ipfs_hash, files, threads, pinned>>

\* concatenate (lines 20-60): the name of the video with the intro, which
\* is filename[:-4] + "_intro" + filename[-4:].
concatenate(fn) ==
    LET n == Len(fn)
        cut == IF n > 4 THEN n - 4 ELSE 0
    IN  SubSeq(fn, 1, cut) \o <<"_", "i", "n", "t", "r", "o">>
            \o SubSeq(fn, cut + 1, n)

\* Mutant: the first stage of send clears the hash of the gateway.
send_intro_reset ==
    /\ pc = "intro"
    /\ IF config.intro
          THEN non_concatenated_filename' = filename
          ELSE UNCHANGED non_concatenated_filename
    /\ filename' = filename
    /\ ipfs_hash' = None
    /\ pc' = "ipfs"
    /\ UNCHANGED <<config, files, threads, pinned, keyword, qrpic, calls, ret,
                   raised, obs>>

\* Lines 73-78: the body of the try only copies the name; concatenate is
\* not called and filename keeps its value.
send_intro ==
    /\ pc = "intro"
    /\ IF config.intro
          THEN non_concatenated_filename' = filename
          ELSE UNCHANGED non_concatenated_filename
    /\ filename' = filename
    /\ pc' = "ipfs"
    /\ UNCHANGED <<config, ipfs_hash, files, threads, pinned, keyword, qrpic,
                   calls, ret, raised, obs>>

\* IpfsWorker.post (lines 152-160).  res is what client.add does with the
\* file ("StorageError", or "ok" and res["Hash"] is its hash), url whether
\* update_short_url raises.  The result is the new self.ipfs_hash, the
\* exception that leaves post, and what was invoked.
IpfsWorker_post(hash, fn, kw, res, url) ==
    IF res # "ok"
    THEN [ipfs_hash |-> hash, exc |-> "StorageError", adds |-> 1,
          writes |-> 0, urls |-> <<>>]
    ELSE IF kw # <<>>
    THEN [ipfs_hash |-> HashOf(fn),
          exc |-> IF url = "ok" THEN NoExc ELSE "ShortUrlError",
          adds |-> 1, writes |-> 1, urls |-> <<<<kw, HashOf(fn)>>>>]
    ELSE [ipfs_hash |-> HashOf(fn), exc |-> NoExc, adds |-> 1, writes |-> 1,
          urls |-> <<>>]

\* Mutant: storage publication also runs when only pinning is enabled.
PublishGuard_or == config.external_io \/ config.pinata

\* Line 80.
PublishGuard == config.external_io

\* Line 85.
PinGuard == config.pinata

\* Lines 80-84 and the handler of lines 89-92.
send_ipfs ==
    /\ pc = "ipfs"
    /\ IF ~PublishGuard
       THEN /\ pc' = "clean"
            /\ UNCHANGED <<ipfs_hash, obs, ret, raised>>
       ELSE \E res \in {"ok", "StorageError"}, url \in {"ok", "fail"} :
              LET r == IpfsWorker_post(ipfs_hash, filename, keyword, res, url)
              IN  /\ ipfs_hash' = r.ipfs_hash
                  /\ obs' = [obs EXCEPT !.order = Append(@, "ipfs"),
                                        !.adds = @ + r.adds,
                                        !.writes = @ + r.writes,
                                        !.written = IF r.writes > 0
                                                    THEN r.ipfs_hash ELSE @,
                                        !.urls = @ \o r.urls,
                                        !.excIo = r.exc]
                  /\ IF r.exc = NoExc
                     THEN /\ pc' = IF PinGuard THEN "pinata" ELSE "clean"
                          /\ UNCHANGED <<ret, raised>>
                     ELSE IF except_io(r.exc)
                     THEN /\ pc' = "clean"
                          /\ UNCHANGED <<ret, raised>>
                     ELSE Propagate(r.exc)
    /\ UNCHANGED <<config, files, threads, pinned, filename, keyword, qrpic,
                   non_concatenated_filename, calls>>

\* Mutant: post joins the thread it started, so the thread has ended when
\* post returns.
PinataWorker_post_join(ths, fn, call, start) ==
    IF start = "ok"
    THEN [threads |-> Append(ths, [args |-> fn, call |-> call,
                                    st |-> "finished", exc |-> NoExc,
                                    read |-> "no"]),
          exc |-> NoExc]
    ELSE [threads |-> ths, exc |-> "RuntimeError"]

\* PinataWorker.post (lines 198-208).  start is whether Thread.start succeeds.  The thread is created with
\* args=filename and is not joined: post returns the new list of threads
\* with the thread not yet run.
PinataWorker_post(ths, fn, call, start) ==
    IF start = "ok"
    THEN [threads |-> Append(ths, [args |-> fn, call |-> call,
                                    st |-> "started", exc |-> NoExc,
                                    read |-> "no"]),
          exc |-> NoExc]
    ELSE [threads |-> ths, exc |-> "RuntimeError"]

\* Lines 85-87 and the handler of lines 89-92.
send_pinata ==
    /\ pc = "pinata"
    /\ \E start \in {"ok", "fail"} :
         LET r == PinataWorker_post(threads, filename, calls, start)
         IN  /\ threads' = r.threads
             /\ obs' = [obs EXCEPT !.order = Append(@, "pinata"),
                                   !.pinPosts = @ + 1, !.excIo = r.exc]
             /\ IF r.exc = NoExc \/ except_io(r.exc)
                THEN /\ pc' = "clean"
                     /\ UNCHANGED <<ret, raised>>
                ELSE Propagate(r.exc)
    /\ UNCHANGED <<config, ipfs_hash, files, pinned, filename, keyword, qrpic,
                   non_concatenated_filename, calls>>

\* PinataWorker._pin_to_pinata (lines 210-224) called with the positional
\* arguments args on a worker whose self.config is cfg.  net is whether the
\* upload succeeds.  The method takes exactly one argument;
\* pin_file_to_ipfs opens the file it is given.  read tells whether the
\* file was opened, and whether it was there.
pin_to_pinata(cfg, args, fs, pins, net) ==
    IF Len(args) # 1
    THEN [pinned |-> pins, exc |-> "TypeError", read |-> "no"]
    ELSE LET fn == <<args[1]>>
         IN  IF cfg.pinata_api /\ cfg.pinata_secret_api
             THEN IF fn \notin fs
                  THEN [pinned |-> pins, exc |-> "FileNotFoundError",
                        read |-> "missing"]
                  ELSE IF net = "ok"
                  THEN [pinned |-> pins \cup {fn}, exc |-> NoExc,
                        read |-> "yes"]
                  ELSE [pinned |-> pins, exc |-> "PinningError",
                        read |-> "yes"]
             ELSE [pinned |-> pins, exc |-> NoExc, read |-> "no"]

\* Mutant: what the target raises is raised in the caller of send.
pinata_thread_raises(i) ==
    /\ i \in DOMAIN threads
    /\ threads[i].st = "started"
    /\ \E net \in {"ok", "fail"} :
         LET r == pin_to_pinata(config, threads[i].args, files, pinned, net)
         IN  /\ pinned' = r.pinned
             /\ raised' = IF r.exc = NoExc THEN raised ELSE r.exc
             /\ threads' =
                  IF threads[i].call = calls /\ pc # "idle"
                  THEN [threads EXCEPT ![i].st = "finished",
                                       ![i].exc = r.exc, ![i].read = r.read]
                  ELSE SelectSeq(threads, LAMBDA t : t # threads[i])
    /\ UNCHANGED <<config, ipfs_hash, files, pc, filename, keyword, qrpic,
                   non_concatenated_filename, calls, ret, obs>>

\* The thread of lines 202-208 runs: Thread.run calls
\* self._target(*self._args), and whatever the target raises ends the
\* thread and nothing else.  The thread of the current call is kept with
\* its outcome until the caller leaves; an older one is forgotten at once.
pinata_thread(i) ==
    /\ i \in DOMAIN threads
    /\ threads[i].st = "started"
    /\ \E net \in {"ok", "fail"} :
         LET r == pin_to_pinata(config, threads[i].args, files, pinned, net)
         IN  /\ pinned' = r.pinned
             /\ threads' =
                  IF threads[i].call = calls /\ pc # "idle"
                  THEN [threads EXCEPT ![i].st = "finished",
                                       ![i].exc = r.exc, ![i].read = r.read]
                  ELSE SelectSeq(threads, LAMBDA t : t # threads[i])
    /\ UNCHANGED <<config, ipfs_hash, files, pc, filename, keyword, qrpic,
                   non_concatenated_filename, calls, ret, raised, obs>>

\* os.remove: deletes the path, or raises when it does not exist.
os_remove(fs, p) ==
    IF p \in fs
    THEN [files |-> fs \ {p}, exc |-> NoExc]
    ELSE [files |-> fs, exc |-> "FileNotFoundError"]

\* clean_after_record (lines 109-114): three removals in a row, the first
\* exception ends the method.
clean_after_record(fs, fn, qr, ncf) ==
    LET r1 == os_remove(fs, fn)
        r2 == os_remove(r1.files, qr)
        r3 == os_remove(r2.files, ncf)
    IN  IF r1.exc # NoExc THEN r1
        ELSE IF r2.exc # NoExc THEN r2
        ELSE IF config.intro THEN r3
        ELSE r2

\* Line 94.
CleanGuard == config.delete_after_record /\ qrpic # <<>>

\* Mutant: the cleanup stage is placed before storage publication.
send_clean_first ==
    /\ \/ /\ pc = "ipfs" /\ CleanGuard /\ ~obs.cleanTried
          /\ LET r == IF non_concatenated_filename = Unbound
                       THEN [files |-> files, exc |-> "UnboundLocalError"]
                       ELSE clean_after_record(files, filename, qrpic,
                                               non_concatenated_filename)
             IN  /\ files' = r.files
                 /\ obs' = [obs EXCEPT !.order = Append(@, "clean"),
                                       !.cleanTried = TRUE,
                                       !.removed = files \ r.files,
                                       !.excClean = r.exc]
          /\ pc' = pc
       \/ /\ pc = "clean"
          /\ pc' = "datalog"
          /\ UNCHANGED <<files, obs>>
    /\ UNCHANGED <<config, ipfs_hash, threads, pinned, filename, keyword,
                   qrpic, non_concatenated_filename, calls, ret, raised>>

\* Lines 94-98.  Reading non_concatenated_filename for the call of line 96
\* raises UnboundLocalError when lines 75-76 did not run, before
\* clean_after_record is entered.
send_clean ==
    /\ pc = "clean"
    /\ IF ~CleanGuard
       THEN /\ pc' = "datalog"
            /\ UNCHANGED <<files, obs, ret, raised>>
       ELSE LET r == IF non_concatenated_filename = Unbound
                     THEN [files |-> files, exc |-> "UnboundLocalError"]
                     ELSE clean_after_record(files, filename, qrpic,
                                             non_concatenated_filename)
            IN  /\ files' = r.files
                /\ obs' = [obs EXCEPT !.order = Append(@, "clean"),
                                      !.cleanTried = TRUE,
                                      !.removed = files \ r.files,
                                      !.excClean = r.exc]
                /\ IF r.exc = NoExc \/ except_clean(r.exc)
                   THEN /\ pc' = "datalog"
                        /\ UNCHANGED <<ret, raised>>
                   ELSE Propagate(r.exc)
    /\ UNCHANGED <<config, ipfs_hash, threads, pinned, filename, keyword,
                   qrpic, non_concatenated_filename, calls>>

\* Mutant: post does not test the hash before it builds the command.
RobonomicsWorker_post_nocheck(hash, out) ==
    IF out = "OSError"
    THEN [exc |-> "OSError", cmds |-> <<hash>>, logged |-> FALSE]
    ELSE [exc |-> NoExc, cmds |-> <<hash>>, logged |-> TRUE]

\* RobonomicsWorker.post (lines 173-188).  out is what becomes of the
\* command: "ok" (a transaction hash is printed), "fail" (the command
\* fails and prints nothing) or "OSError" (Popen cannot start the shell).
\* cmds are the hashes echoed into commands that were started.  The exit
\* status and the output of the command are not examined.
RobonomicsWorker_post(hash, out) ==
    IF hash = None
    THEN [exc |-> "ValueError", cmds |-> <<>>, logged |-> FALSE]
    ELSE IF out = "OSError"
    THEN [exc |-> "OSError", cmds |-> <<hash>>, logged |-> FALSE]
    ELSE [exc |-> NoExc, cmds |-> <<hash>>, logged |-> TRUE]

\* Mutant: the ledger stage is gated by the pinning flag.
DatalogGuard_pinata == config.datalog /\ config.pinata

\* Line 100.
DatalogGuard == config.datalog /\ config.external_io

\* Lines 100-107.  The return statement of line 107 belongs to the if of
\* line 100; when the condition is false the function ends without one.
send_datalog ==
    /\ pc = "datalog"
    /\ IF ~DatalogGuard
       THEN /\ ret' = None
            /\ pc' = "returned"
            /\ UNCHANGED <<obs, raised>>
       ELSE \E out \in {"ok", "fail", "OSError"} :
              LET r == RobonomicsWorker_post(ipfs_hash, out)
              IN  /\ obs' = [obs EXCEPT !.order = Append(@, "datalog"),
                                        !.posts = @ + 1,
                                        !.postExc = r.exc,
                                        !.cmds = @ \o r.cmds,
                                        !.ledger = IF r.cmds = <<>>
                                                   THEN @ ELSE out,
                                        !.excDatalog = r.exc]
                  /\ IF r.exc = NoExc \/ except_datalog(r.exc)
                     THEN /\ ret' = ipfs_hash
                          /\ pc' = "returned"
                          /\ UNCHANGED raised
                     ELSE Propagate(r.exc)
    /\ UNCHANGED <<config, ipfs_hash, files, threads, pinned, filename,
                   keyword, qrpic, non_concatenated_filename, calls>>

Next ==
    \/ \E p \in Paths : Record(p)
    \/ \E fn \in Filenames, kw \in Keywords, qr \in QrPics : Send(fn, kw, qr)
    \/ send_intro
    \/ send_ipfs
    \/ send_pinata
    \/ send_clean
    \/ send_datalog
    \/ Leave
    \/ \E i \in 1..MaxCalls : pinata_thread(i)

Spec == Init /\ [][Next]_vars

\* One step of the caller inside send.
SendStep == send_intro \/ send_ipfs \/ send_pinata \/ send_clean \/ send_datalog

\* send has just come back to its caller.
Returned == pc = "returned"

\* The thread PinataWorker.post started in the current call, if any.
ThreadsOfCall == {i \in DOMAIN threads : threads[i].call = calls}

TypeOK ==
    /\ config \in Configs
    /\ ipfs_hash \in Hashes \cup {None}
    /\ files \subseteq Paths
    /\ pc \in {"idle", "intro", "ipfs", "pinata", "clean", "datalog",
              "returned"}
    /\ calls \in 0..MaxCalls
    /\ ret \in Hashes \cup {None, Pending}

\* ------------------------------------------------------------------ claims

\* C1: with external_io.enable true and a storage client that returned
\* hash H for the file, send returns H, whatever the other flags are and
\* whatever becomes of pinning and of ledger anchoring.
C1_ReturnsStoredHash ==
    (Returned /\ config.external_io /\ obs.written # None)
        => ret = obs.written

\* C2: with external_io.enable false, send returns None and invokes none of
\* the storage client, the pinning dispatch and the ledger client, whatever
\* pinata.enable and datalog.enable are.
C2_DisabledDoesNothing ==
    (~config.external_io /\ pc # "idle") =>
        /\ obs.adds = 0
        /\ obs.pinPosts = 0
        /\ ThreadsOfCall = {}
        /\ obs.posts = 0
        /\ obs.cmds = <<>>
        /\ Returned => ret = None

C2_Witness ==
    /\ Returned /\ ~config.external_io /\ config.pinata /\ config.datalog
    /\ ret = None /\ obs.adds = 0

\* C3: a send call with external_io.enable true in which the storage client
\* fails returns None and does not invoke the ledger command, also on a
\* gateway that has completed earlier calls.
C3_StorageFailureReturnsNone ==
    (Returned /\ config.external_io /\ obs.excIo = "StorageError") =>
        /\ ret = None
        /\ obs.cmds = <<>>

\* C4: send never raises and never stops short of returning: whatever
\* stages fail, no exception leaves send, and inside send the caller's next
\* step is always possible.
C4_NeverRaises ==
    /\ raised = NoExc
    /\ pc \notin {"idle", "returned"} => ENABLED SendStep
    /\ Returned => ret # Pending

C4_Witness ==
    /\ Returned /\ raised = NoExc
    /\ obs.excIo = "StorageError"
    /\ obs.excClean = "UnboundLocalError"
    /\ obs.excDatalog = "ValueError"

\* C5: with general.delete_after_record true and a non-empty QR path, when
\* send returns the working file and the QR file are gone from the disk,
\* for intro.enable false and true, and with intro.enable true the original
\* file is gone too.  (Stated for calls that found both files on the disk.)
C5_FilesDeleted ==
    (/\ Returned /\ config.delete_after_record /\ qrpic # <<>>
     /\ {filename, qrpic} \subseteq files \cup obs.removed) =>
        /\ filename \notin files
        /\ qrpic \notin files
        /\ config.intro => non_concatenated_filename \notin files

\* C6: the ledger command is never started with an unset hash:
\* RobonomicsWorker.post called while self.ipfs_hash is None raises
\* ValueError before any command, whatever the configuration.
C6_NoLedgerWithoutHash ==
    /\ \A k \in DOMAIN obs.cmds : obs.cmds[k] # None
    /\ (obs.posts > 0 /\ ipfs_hash = None) =>
           (obs.postExc = "ValueError" /\ obs.cmds = <<>>)

C6_Witness ==
    /\ Returned /\ obs.posts = 1 /\ ipfs_hash = None
    /\ obs.postExc = "ValueError" /\ obs.cmds = <<>>

\* C7: PinataWorker.post returns without waiting for the thread it started:
\* when the dispatch step ends the caller is at the next stage and the new
\* thread has not run, and the caller's steps never wait for a thread.
C7_DispatchDoesNotWait ==
    /\ [][(pc = "pinata" /\ obs'.pinPosts = obs.pinPosts + 1
              /\ obs'.excIo = NoExc) =>
           /\ pc' = "clean"
           /\ ThreadsOfCall' # {}
           /\ \A i \in ThreadsOfCall' : threads'[i].st = "started"]_vars
    /\ []((pc \notin {"idle", "returned"} /\ threads # <<>>)
              => ENABLED SendStep)

\* send has returned while the thread of the call has not finished.
C7_Witness ==
    /\ Returned /\ obs.pinPosts = 1
    /\ \E i \in ThreadsOfCall : threads[i].st = "started"

\* C8: with external_io.enable and datalog.enable true and a storage client
\* that returned H, the ledger command is started exactly once in the call
\* and the hash it anchors is H.
C8_LedgerOnceWithHash ==
    (Returned /\ config.external_io /\ config.datalog /\ obs.written # None)
        => (obs.posts = 1 /\ obs.cmds = <<obs.written>>)

C8_Witness ==
    /\ Returned /\ config.external_io /\ config.datalog /\ ~config.pinata
    /\ ~config.intro /\ ~config.delete_after_record
    /\ obs.written = "Qm1" /\ obs.cmds = <<"Qm1">> /\ ret = "Qm1"

\* C9: a failure of storage publication or of pinning dispatch does not
\* stop the later stages of the same call: the cleanup stage is entered
\* when delete_after_record is set and a QR path was given, and
\* RobonomicsWorker.post is called when datalog.enable is set.
C9_FailureDoesNotStopLaterStages ==
    (Returned /\ obs.excIo # NoExc) =>
        /\ (config.delete_after_record /\ qrpic # <<>>) => obs.cleanTried
        /\ config.datalog => obs.posts = 1

C9_Witness ==
    /\ Returned /\ obs.excIo = "RuntimeError"
    /\ config.delete_after_record /\ qrpic # <<>> /\ obs.cleanTried
    /\ config.datalog /\ obs.posts = 1

\* C10: nothing of the publication context survives a call: the hash a call
\* returns or anchors on the ledger was written by storage publication in
\* that same call.
C10_NoCrossCallHash ==
    /\ \A k \in DOMAIN obs.cmds : obs.cmds[k] = obs.written
    /\ Returned => ret \in {None, obs.written}

\* C11: with intro.enable true send calls the media preprocessor; when it
\* succeeds the later stages work on the name it returned and the original
\* name is kept for the cleanup, when it fails they work on the original.
C11_PreprocessorCalled ==
    (config.intro /\ pc \in {"ipfs", "pinata", "clean", "datalog", "returned"})
        => /\ obs.concats = 1
           /\ filename \in {concatenate(non_concatenated_filename),
                            non_concatenated_filename}

\* C12: the thread PinataWorker.post started for a file submits that file
\* to pinata when both credentials are present, and ends without doing
\* anything when one of them is absent.
C12_TaskPinsTheFile ==
    \A i \in DOMAIN threads :
        threads[i].st = "finished" =>
            IF config.pinata_api /\ config.pinata_secret_api
            THEN threads[i].read # "no"
            ELSE threads[i].read = "no"

\* C13: when the hash is set and the ledger submission fails,
\* RobonomicsWorker.post raises to its caller; it does not return normally
\* after reporting a published transaction.
C13_LedgerFailureRaises ==
    obs.ledger \in {"fail", "OSError"} => obs.postExc # NoExc

\* The place of a stage in send.
StageRank(st) ==
    CASE st = "ipfs" -> 1 [] st = "pinata" -> 2 [] st = "clean" -> 3
      [] st = "datalog" -> 4

\* The stages entered so far in the current call.
StagesEntered == {obs.order[k] : k \in DOMAIN obs.order}

\* C14: within one call the stages come in a fixed order: storage
\* publication has ended before pinning is dispatched, before the cleanup
\* deletes a file and before the ledger is tried, and the cleanup comes
\* before the ledger attempt.
C14_StageOrder ==
    /\ \A j, k \in DOMAIN obs.order :
           j < k => StageRank(obs.order[j]) < StageRank(obs.order[k])
    /\ (StagesEntered \cap {"pinata", "datalog"} # {}) => obs.adds = 1
    /\ (config.external_io /\ "clean" \in StagesEntered) => obs.adds = 1
    /\ obs.removed # {} => "clean" \in StagesEntered
    /\ ("datalog" \in StagesEntered /\ CleanGuard) => obs.cleanTried

C14_Witness ==
    /\ Returned
    /\ obs.order = <<"ipfs", "pinata", "clean", "datalog">>
    /\ obs.removed # {}

\* C15: in the cleanup stage each deletion stands alone: when removing one
\* of the files fails, for example because it is missing, the other files
\* are removed all the same, and no error leaves the stage.  (Stated for
\* calls in which clean_after_record was entered.)
C15_DeletionsIsolated ==
    (Returned /\ obs.cleanTried /\ non_concatenated_filename # Unbound) =>
        /\ raised = NoExc
        /\ filename \notin files
        /\ qrpic \notin files
        /\ config.intro => non_concatenated_filename \notin files

\* C16: IpfsWorker.post gives (keyword, hash) to the short-link updater
\* exactly when keyword is non-empty, and only once the hash is written; a
\* failure of the updater does not undo the publication: the hash stays
\* set and send still returns it.
C16_ShortLinkAfterHash ==
    /\ obs.urls = IF obs.written # None /\ keyword # <<>>
                  THEN << <<keyword, obs.written>> >> ELSE <<>>
    /\ obs.excIo = "ShortUrlError" =>
           (obs.written # None /\ ipfs_hash = obs.written)
    /\ (Returned /\ obs.excIo = "ShortUrlError") => ret = obs.written

\* C17: during one call self.ipfs_hash is written at most once, and only by
\* IpfsWorker.post; the intro stage, the pinning dispatch, the pinning
\* thread, the cleanup and RobonomicsWorker.post leave it as it is.
C17_HashWrittenOnceByStorage ==
    [][/\ ipfs_hash' # ipfs_hash =>
              /\ pc = "ipfs"
              /\ obs'.writes = obs.writes + 1
              /\ ipfs_hash' = obs'.written
       /\ (pc \notin {"idle", "returned"} /\ obs'.writes # obs.writes) =>
              pc = "ipfs"
       /\ obs'.writes <= 1]_vars

\* A call in which every stage and the thread ran, after one write.
C17_Witness ==
    /\ Returned /\ obs.writes = 1 /\ ipfs_hash = obs.written
    /\ obs.order = <<"ipfs", "pinata", "clean", "datalog">>
    /\ config.intro
    /\ \E i \in ThreadsOfCall : threads[i].st = "finished"

\* What the caller of send and the gateway hold: everything but the threads
\* and what pinata has received.
callerVars ==
    <<config, ipfs_hash, files, pc, filename, keyword, qrpic,
      non_concatenated_filename, calls, ret, raised, obs>>

\* C18: a failure inside the pinning thread never reaches the caller:
\* whether the thread has succeeded, failed or is still running, a step of
\* the thread changes nothing the caller holds, and whether the cleanup and
\* the ledger stage ran, what the ledger anchored and what send returned
\* are fixed by the configuration, the arguments and the hash alone.
C18_ThreadDoesNotReachCaller ==
    /\ [][(threads' # threads /\ Len(threads') <= Len(threads)
              /\ ~(pc = "returned" /\ pc' = "idle"))
            => UNCHANGED callerVars]_vars
    /\ [](Returned =>
            /\ raised = NoExc
            /\ ret = IF DatalogGuard THEN ipfs_hash ELSE None
            /\ obs.cleanTried = CleanGuard
            /\ obs.posts = IF DatalogGuard THEN 1 ELSE 0
            /\ obs.cmds = IF DatalogGuard /\ ipfs_hash # None
                          THEN <<ipfs_hash>> ELSE <<>>)

\* send has returned the hash after the thread of the call failed.
C18_Witness ==
    /\ Returned /\ ret = obs.written /\ ret # None
    /\ obs.cleanTried /\ obs.cmds = <<ret>>
    /\ \E i \in ThreadsOfCall :
           threads[i].st = "finished" /\ threads[i].exc # NoExc

\* C19: once send is past the storage and pinning stages, the pinning task
\* has been dispatched only if external_io.enable and pinata.enable are
\* true and storage publication wrote the hash in this call, it has been
\* dispatched whenever the hash was written and pinata.enable is true, and
\* it has not been dispatched when the hash was not written.
C19_PinningDispatched ==
    pc \in {"clean", "datalog", "returned"} =>
        /\ obs.pinPosts = 1 =>
               config.external_io /\ config.pinata /\ obs.writes = 1
        /\ (obs.writes = 1 /\ config.pinata) => obs.pinPosts = 1
        /\ obs.writes = 0 => obs.pinPosts = 0

\* C20: with pinata.enable and delete_after_record true and a QR path given,
\* no pinning thread of the call finds the working file missing after the
\* cleanup stage of the call has deleted it.
C20_PinReadsBeforeCleanup ==
    (config.pinata /\ config.delete_after_record /\ qrpic # None) =>
        \A i \in ThreadsOfCall :
            (threads[i].st = "finished" /\ threads[i].read = "missing")
                => filename \notin obs.removed
====
